---------------------------- MODULE Spec2Model ----------------------------
(***************************************************************************)
(* MikroID: a registry of named ID configurations and a generator that     *)
(* draws characters from an alphabet by rejection sampling on masked       *)
(* random bytes.                                                           *)
(*                                                                         *)
(* JavaScript values are modelled as follows.  An optional value is a      *)
(* sequence: << >> is undefined, <<v>> is the value v.  A string of        *)
(* characters (an alphabet, an ID) is a sequence of one-character strings. *)
(***************************************************************************)
EXTENDS Integers, Sequences, FiniteSets, TLC

VARIABLES
    options,    \* this.options: the own properties of the registry object
    proto,      \* the prototype of this.options: << >> is Object.prototype,
                \* <<c>> is the configuration object c
    result,     \* the last completed call of the public API and its outcome
    gen         \* << >>, or <<f>> with f the frame of a running generateId

vars == <<options, proto, result, gen>>

-----------------------------------------------------------------------------
(* Bounds of the model *)

\* the largest explicitly requested ID length
MaxLen == 2

-----------------------------------------------------------------------------
(* Optional values and the operators || and ?? *)

Undefined == << >>

Some(v) == <<v>>

\* a || b on an optional number: undefined and 0 are falsy
LogicalOrNumber(a, b) == IF a = Undefined \/ a[1] = 0 THEN b ELSE a[1]

\* a || b on an optional string: undefined and '' are falsy
LogicalOrString(a, b) == IF a = Undefined \/ a[1] = "" THEN b ELSE a[1]

\* a ?? b: only undefined is replaced
NullishCoalesce(a, b) == IF a = Undefined THEN b ELSE a[1]

\* the truthiness of an optional boolean (as in  flag ? x : y)
TruthyFlag(a) == a # Undefined /\ a[1]

-----------------------------------------------------------------------------
(* Configurations *)

defaultLength == 16

defaultOnlyLowerCase == FALSE

defaultStyle == "extended"

defaultUrlSafe == TRUE

\* the object literal { length, style, ... } with every field optional
Partial(n, l, lc, s, us) ==
    [name |-> n, length |-> l, onlyLowerCase |-> lc, style |-> s, urlSafe |-> us]

NoFields == Partial(Undefined, Undefined, Undefined, Undefined, Undefined)

\* generateConfig with ?? in place of || for length: a zero length is kept
generateConfigNullishLength(o) ==
    [name          |-> LogicalOrString(o.name, ""),
     length        |-> NullishCoalesce(o.length, defaultLength),
     onlyLowerCase |-> NullishCoalesce(o.onlyLowerCase, defaultOnlyLowerCase),
     style         |-> LogicalOrString(o.style, defaultStyle),
     urlSafe       |-> NullishCoalesce(o.urlSafe, defaultUrlSafe)]

\* generateConfig with || in place of ?? for urlSafe: an explicit false is lost
generateConfigOrUrlSafe(o) ==
    [name          |-> LogicalOrString(o.name, ""),
     length        |-> LogicalOrNumber(o.length, defaultLength),
     onlyLowerCase |-> NullishCoalesce(o.onlyLowerCase, defaultOnlyLowerCase),
     style         |-> LogicalOrString(o.style, defaultStyle),
     urlSafe       |-> IF TruthyFlag(o.urlSafe) THEN TRUE ELSE defaultUrlSafe]

generateConfig(o) ==
    [name          |-> LogicalOrString(o.name, ""),
     length        |-> LogicalOrNumber(o.length, defaultLength),
     onlyLowerCase |-> NullishCoalesce(o.onlyLowerCase, defaultOnlyLowerCase),
     style         |-> LogicalOrString(o.style, defaultStyle),
     urlSafe       |-> NullishCoalesce(o.urlSafe, defaultUrlSafe)]

-----------------------------------------------------------------------------
(* Outcomes of a call *)

Returned(id) == [kind |-> "id", id |-> id, error |-> "", value |-> ""]

Thrown(e, v) == [kind |-> "throw", id |-> << >>, error |-> e, value |-> v]

Void == [kind |-> "void", id |-> << >>, error |-> "", value |-> ""]

\* the call has not returned
Running == [kind |-> "running", id |-> << >>, error |-> "", value |-> ""]


-----------------------------------------------------------------------------
(* Alphabets *)

HexLower == <<"0", "1", "2", "3", "4", "5", "6", "7", "8", "9", "a", "b", "c", "d", "e", "f">>

HexMixed == <<"0", "1", "2", "3", "4", "5", "6", "7", "8", "9", "A", "B", "C", "D", "E", "F", "a", "b", "c", "d", "e", "f">>

AlphanumericLower == <<"a", "b", "c", "d", "e", "f", "g", "h", "i", "j", "k", "l", "m", "n", "o", "p", "q", "r", "s", "t", "u", "v", "w", "x", "y", "z", "0", "1", "2", "3", "4", "5", "6", "7", "8", "9">>

AlphanumericMixed == <<"A", "B", "C", "D", "E", "F", "G", "H", "I", "J", "K", "L", "M", "N", "O", "P", "Q", "R", "S", "T", "U", "V", "W", "X", "Y", "Z", "a", "b", "c", "d", "e", "f", "g", "h", "i", "j", "k", "l", "m", "n", "o", "p", "q", "r", "s", "t", "u", "v", "w", "x", "y", "z", "0", "1", "2", "3", "4", "5", "6", "7", "8", "9">>

ExtendedUrlSafeLower == <<"a", "b", "c", "d", "e", "f", "g", "h", "i", "j", "k", "l", "m", "n", "o", "p", "q", "r", "s", "t", "u", "v", "w", "x", "y", "z", "0", "1", "2", "3", "4", "5", "6", "7", "8", "9", "-", ".", "_", "~">>

ExtendedUrlSafeMixed == <<"A", "B", "C", "D", "E", "F", "G", "H", "I", "J", "K", "L", "M", "N", "O", "P", "Q", "R", "S", "T", "U", "V", "W", "X", "Y", "Z", "a", "b", "c", "d", "e", "f", "g", "h", "i", "j", "k", "l", "m", "n", "o", "p", "q", "r", "s", "t", "u", "v", "w", "x", "y", "z", "0", "1", "2", "3", "4", "5", "6", "7", "8", "9", "-", ".", "_", "~">>

ExtendedLower == <<"a", "b", "c", "d", "e", "f", "g", "h", "i", "j", "k", "l", "m", "n", "o", "p", "q", "r", "s", "t", "u", "v", "w", "x", "y", "z", "0", "1", "2", "3", "4", "5", "6", "7", "8", "9", "-", ".", "_", "~", "!", "$", "(", ")", "*", "+", ",", ";", "=", ":">>

ExtendedMixed == <<"A", "B", "C", "D", "E", "F", "G", "H", "I", "J", "K", "L", "M", "N", "O", "P", "Q", "R", "S", "T", "U", "V", "W", "X", "Y", "Z", "a", "b", "c", "d", "e", "f", "g", "h", "i", "j", "k", "l", "m", "n", "o", "p", "q", "r", "s", "t", "u", "v", "w", "x", "y", "z", "0", "1", "2", "3", "4", "5", "6", "7", "8", "9", "-", ".", "_", "~", "!", "$", "(", ")", "*", "+", ",", ";", "=", ":">>

\* what the template literal `${style}` prints
StyleText(style) == IF style = Undefined THEN "undefined" ELSE style[1]

\* getCharacterSet with the urlSafe test inverted
getCharacterSetInvertedUrlSafe(style, onlyLowerCase, urlSafe) ==
    IF style = Some("hex")
    THEN Returned(IF TruthyFlag(onlyLowerCase) THEN HexLower ELSE HexMixed)
    ELSE IF style = Some("alphanumeric")
    THEN Returned(IF TruthyFlag(onlyLowerCase)
                  THEN AlphanumericLower ELSE AlphanumericMixed)
    ELSE IF style = Some("extended")
    THEN IF ~TruthyFlag(urlSafe)
         THEN Returned(IF TruthyFlag(onlyLowerCase)
                       THEN ExtendedUrlSafeLower ELSE ExtendedUrlSafeMixed)
         ELSE Returned(IF TruthyFlag(onlyLowerCase)
                       THEN ExtendedLower ELSE ExtendedMixed)
    ELSE Thrown("InvalidStyle", StyleText(style))

\* getCharacterSet falling back to the extended alphabet for an unknown style
getCharacterSetLenient(style, onlyLowerCase, urlSafe) ==
    IF style = Some("hex")
    THEN Returned(IF TruthyFlag(onlyLowerCase) THEN HexLower ELSE HexMixed)
    ELSE IF style = Some("alphanumeric")
    THEN Returned(IF TruthyFlag(onlyLowerCase)
                  THEN AlphanumericLower ELSE AlphanumericMixed)
    ELSE IF TruthyFlag(urlSafe)
         THEN Returned(IF TruthyFlag(onlyLowerCase)
                       THEN ExtendedUrlSafeLower ELSE ExtendedUrlSafeMixed)
         ELSE Returned(IF TruthyFlag(onlyLowerCase)
                       THEN ExtendedLower ELSE ExtendedMixed)

\* the outcome is Returned(alphabet) or Thrown("InvalidStyle", style)
getCharacterSet(style, onlyLowerCase, urlSafe) ==
    IF style = Some("hex")
    THEN Returned(IF TruthyFlag(onlyLowerCase) THEN HexLower ELSE HexMixed)
    ELSE IF style = Some("alphanumeric")
    THEN Returned(IF TruthyFlag(onlyLowerCase)
                  THEN AlphanumericLower ELSE AlphanumericMixed)
    ELSE IF style = Some("extended")
    THEN IF TruthyFlag(urlSafe)
         THEN Returned(IF TruthyFlag(onlyLowerCase)
                       THEN ExtendedUrlSafeLower ELSE ExtendedUrlSafeMixed)
         ELSE Returned(IF TruthyFlag(onlyLowerCase)
                       THEN ExtendedLower ELSE ExtendedMixed)
    ELSE Thrown("InvalidStyle", StyleText(style))

-----------------------------------------------------------------------------
(* Property reads and writes on this.options, a plain object literal *)

ConfigValue(c) == [type |-> "config", cfg |-> c]

FunctionValue(arity) == [type |-> "function", length |-> arity]

ObjectPrototypeValue == [type |-> "prototype"]

StringValue(s) == [type |-> "string", str |-> s]

NumberValue(n) == [type |-> "number", num |-> n]

BooleanValue(b) == [type |-> "boolean", bool |-> b]

UndefinedValue == [type |-> "undefined"]

\* the methods every object literal inherits, with their .length
ObjectPrototypeArity ==
    [k \in {"toString", "valueOf", "constructor", "hasOwnProperty"} |->
        IF k \in {"toString", "valueOf"} THEN 0 ELSE 1]

ConfigFields == {"name", "length", "onlyLowerCase", "style", "urlSafe"}

\* c[field] as a JavaScript value
FieldValue(c, field) ==
    CASE field = "name"          -> StringValue(c.name)
      [] field = "length"        -> NumberValue(c.length)
      [] field = "onlyLowerCase" -> BooleanValue(c.onlyLowerCase)
      [] field = "style"         -> StringValue(c.style)
      [] field = "urlSafe"       -> BooleanValue(c.urlSafe)

\* this.options[name]: an own property, else the prototype chain
Get(o, pr, name) ==
    IF name \in DOMAIN o THEN ConfigValue(o[name])
    ELSE IF name = "__proto__"
    THEN IF pr = Undefined THEN ObjectPrototypeValue ELSE ConfigValue(pr[1])
    ELSE IF pr # Undefined /\ name \in ConfigFields THEN FieldValue(pr[1], name)
    ELSE IF name \in DOMAIN ObjectPrototypeArity
    THEN FunctionValue(ObjectPrototypeArity[name])
    ELSE UndefinedValue

\* this.options[name] = c: the key __proto__ sets the prototype instead of
\* creating an own property.  The result is the pair <<options, proto>>.
Set(o, pr, name, c) ==
    IF name = "__proto__"
    THEN <<o, Some(c)>>
    ELSE <<[k \in DOMAIN o \cup {name} |-> IF k = name THEN c ELSE o[k]], pr>>

\* delete this.options[name]: removes an own property, if there is one
Delete(o, pr, name) ==
    <<[k \in DOMAIN o \ {name} |-> o[k]], pr>>

\* the truthiness of a JavaScript value
Truthy(v) ==
    CASE v.type = "undefined" -> FALSE
      [] v.type = "string"    -> v.str # ""
      [] v.type = "number"    -> v.num # 0
      [] v.type = "boolean"   -> v.bool
      [] OTHER                -> TRUE

NothingDestructured ==
    [length |-> Undefined, onlyLowerCase |-> Undefined,
     style |-> Undefined, urlSafe |-> Undefined]

\* const { length, onlyLowerCase, style, urlSafe } = options
Destructure(v) ==
    CASE v.type = "config" ->
            [length        |-> Some(v.cfg.length),
             onlyLowerCase |-> Some(v.cfg.onlyLowerCase),
             style         |-> Some(v.cfg.style),
             urlSafe       |-> Some(v.cfg.urlSafe)]
      [] v.type = "function" ->
            [NothingDestructured EXCEPT !.length = Some(v.length)]
      [] v.type = "string" ->
            [NothingDestructured EXCEPT !.length = Some(Len(v.str))]
      [] OTHER -> NothingDestructured

-----------------------------------------------------------------------------
(* generateId *)

RECURSIVE BitAnd(_, _)
\* a & b on non-negative integers
BitAnd(a, b) ==
    IF a = 0 \/ b = 0 THEN 0
    ELSE (a % 2) * (b % 2) + 2 * BitAnd(a \div 2, b \div 2)

RECURSIVE Log2Floor(_)
\* the integer part of Math.log(x) / Math.LN2, which is what << keeps of its
\* right operand.  The quotient of the two doubles is within one ulp of the
\* real logarithm; it is exact enough whenever x is no power of two, which
\* holds for x = n - 1 of all eight alphabets.
Log2Floor(x) == IF x < 2 THEN 0 ELSE 1 + Log2Floor(x \div 2)

\* (2 << (Math.log(n - 1) / Math.LN2)) - 1, with a modulo folded in nowhere
Mask(n) == 2 * (2 ^ Log2Floor(n - 1)) - 1

\* Math.ceil((1.6 * mask * length) / n) for length >= 1.  The product is
\* evaluated in doubles: 1.6 * 63 rounds up to 100.80000000000001, so for
\* mask = 63 an exact quotient is rounded up to the next integer.  This
\* definition agrees with the double evaluation for every alphabet and every
\* length from 1 to 284.
Step(mask, length, n) ==
    LET num == 16 * mask * length
        den == 10 * n
    IN  IF num % den = 0
        THEN (num \div den) + (IF mask = 63 THEN 1 ELSE 0)
        ELSE (num \div den) + 1

\* the locals of generateId once the loop is reached
Locals(length, characters) ==
    [length     |-> length,
     characters |-> characters,
     mask       |-> Mask(Len(characters)),
     step       |-> Step(Mask(Len(characters)), length, Len(characters))]

\* generateIdSetup without the length test: a length <= 0 reaches the loop
generateIdSetupNoLengthTest(d) ==
    LET cs == getCharacterSet(d.style, d.onlyLowerCase, d.urlSafe)
    IN  IF cs.kind = "throw" THEN cs
        ELSE [kind |-> "ok", p |-> Locals(d.length[1], cs.id)]

\* generateId up to the loop: Thrown(..), or the locals the loop runs on.
\* An undefined length passes the test (undefined < 0 and undefined === 0 are
\* both false), but then style is undefined too and getCharacterSet throws.
generateIdSetup(d) ==
    IF d.length # Undefined /\ (d.length[1] < 0 \/ d.length[1] = 0)
    THEN Thrown("InvalidLength", "")
    ELSE LET cs == getCharacterSet(d.style, d.onlyLowerCase, d.urlSafe)
         IN  IF cs.kind = "throw" THEN cs
             ELSE [kind |-> "ok", p |-> Locals(d.length[1], cs.id)]

\* the loop's position: at the while test, inside the for loop, or returning
LoopStart == [pc |-> "while", id |-> << >>, i |-> 0]

\* the most bytes getRandomValues of node:crypto fills in one call: asked for
\* a larger array it throws a QuotaExceededError
QuotaBytes == 65536

\* while (id.length < length): enter the body, drawing a fresh batch of step
\* bytes (which getRandomValues refuses beyond its quota), or return
whileTest(p, st) ==
    IF Len(st.id) < p.length
    THEN IF p.step > QuotaBytes
         THEN [st EXCEPT !.pc = "throw"]
         ELSE [st EXCEPT !.pc = "for", !.i = 0]
    ELSE [st EXCEPT !.pc = "return"]

\* forBody without the break: the rest of the batch is still appended
forBodyNoBreak(p, st, b) ==
    LET byte == BitAnd(b, p.mask)
    IN  IF byte < Len(p.characters)
        THEN [st EXCEPT !.id = Append(@, p.characters[byte + 1]),
                        !.i = @ + 1]
        ELSE [st EXCEPT !.i = @ + 1]

\* forBody folding the masked byte into range instead of rejecting it
forBodyModulo(p, st, b) ==
    LET byte == BitAnd(b, p.mask) % Len(p.characters)
        id2  == Append(st.id, p.characters[byte + 1])
    IN  IF Len(id2) = p.length
        THEN [st EXCEPT !.id = id2, !.pc = "while"]
        ELSE [st EXCEPT !.id = id2, !.i = @ + 1]

\* one pass of the for body on the byte b = bytes[i]
forBody(p, st, b) ==
    LET byte == BitAnd(b, p.mask)
    IN  IF byte < Len(p.characters)
        THEN LET id2 == Append(st.id, p.characters[byte + 1])
             IN  IF Len(id2) = p.length
                 THEN [st EXCEPT !.id = id2, !.pc = "while"]
                 ELSE [st EXCEPT !.id = id2, !.i = @ + 1]
        ELSE [st EXCEPT !.i = @ + 1]

\* i < step fails: the batch is used up
forExit(p, st) == [st EXCEPT !.pc = "while"]

\* the bytes a source delivers: src repeated for ever
ByteAt(src, k) == src[(k % Len(src)) + 1]

\* a source the loop terminates on: some byte of it is accepted
Productive(p, src) ==
    \E j \in 1..Len(src) : BitAnd(src[j], p.mask) < Len(p.characters)

RECURSIVE runLoop(_, _, _, _)
\* the loop run to its return on the bytes of src, k of them consumed so far
runLoop(p, st, src, k) ==
    CASE st.pc \in {"return", "throw"} -> st
      [] st.pc = "while"  -> runLoop(p, whileTest(p, st), src, k)
      [] st.pc = "for"    ->
            IF st.i < p.step
            THEN runLoop(p, forBody(p, st, ByteAt(src, k)), src, k + 1)
            ELSE runLoop(p, forExit(p, st), src, k)

\* the byte sources of the calls that run as one step
Sources == { <<255, 65>> }

Alphabets ==
    { HexLower, HexMixed, AlphanumericLower, AlphanumericMixed,
      ExtendedUrlSafeLower, ExtendedUrlSafeMixed, ExtendedLower, ExtendedMixed }

\* runLoop tabulated on the locals that valid configurations lead to
runs ==
    [p \in { Locals(l, cs) : l \in (1..MaxLen) \cup {defaultLength},
                             cs \in Alphabets },
     src \in Sources |-> runLoop(p, LoopStart, src, 0).id]

\* generateId as one call on the destructured argument d: it throws, returns
\* an ID, or (on a source with no accepted byte) never leaves the loop
generateId(d, src) ==
    LET s == generateIdSetup(d)
    IN  IF s.kind = "throw" THEN s
        ELSE IF s.p.step <= QuotaBytes /\ ~Productive(s.p, src) THEN Running
        ELSE IF <<s.p, src>> \in DOMAIN runs THEN Returned(runs[s.p, src])
        ELSE LET end == runLoop(s.p, LoopStart, src, 0)
             IN  IF end.pc = "throw" THEN Thrown("QuotaExceeded", "")
                 ELSE Returned(end.id)

-----------------------------------------------------------------------------
(* The public API, each call as one step *)

\* the record of a completed call: the operation, its argument, the
\* configuration it stored or generated with, the entry its key held before
\* the call, and the outcome
Call(op, input, config, prev, out) ==
    [op |-> op, input |-> input, config |-> config, prev |-> prev, out |-> out]

\* !config?.name
NoName(c) == c.name = Undefined \/ c.name[1] = ""

\* the own entry under name, if any
Entry(o, name) == IF name \in DOMAIN o THEN Some(o[name]) ELSE Undefined

EmptyObject == [k \in {} |-> generateConfig(NoFields)]

RECURSIVE constructor(_, _, _)
\* the constructor's loop over Object.entries(options), from the registry
\* <<o, pr>>: the result is the pair <<options, proto>>
constructor(o, pr, entries) ==
    IF entries = << >> THEN <<o, pr>>
    ELSE LET r == Set(o, pr, entries[1].key, generateConfig(entries[1].config))
         IN  constructor(r[1], r[2], Tail(entries))

\* add keeping the fields of the entry it overwrites where config omits them
addMerging(config) ==
    /\ gen = Undefined
    /\ ~NoName(config)
    /\ LET old         == Entry(options, config.name[1])
           merged      == IF old = Undefined THEN config
                          ELSE [f \in DOMAIN config |->
                                  IF config[f] = Undefined
                                  THEN Some(old[1][f]) ELSE config[f]]
           cleanConfig == generateConfig(merged)
           r           == Set(options, proto, config.name[1], cleanConfig)
       IN  /\ options' = r[1]
           /\ proto' = r[2]
           /\ result' = Call("add", config, Some(cleanConfig), old, Void)
    /\ UNCHANGED gen

\* add storing the configuration before it tests the name
addUnchecked(config) ==
    /\ gen = Undefined
    /\ LET cleanConfig == generateConfig(config)
           r           == Set(options, proto, cleanConfig.name, cleanConfig)
       IN  /\ options' = r[1]
           /\ proto' = r[2]
           /\ result' = Call("add", config, Some(cleanConfig),
                             Entry(options, cleanConfig.name),
                             IF NoName(config) THEN Thrown("MissingName", "")
                             ELSE Void)
    /\ UNCHANGED gen

add(config) ==
    /\ gen = Undefined
    /\ IF NoName(config)
       THEN /\ result' = Call("add", config, Undefined, Undefined,
                              Thrown("MissingName", ""))
            /\ UNCHANGED <<options, proto>>
       ELSE LET cleanConfig == generateConfig(config)
                r == Set(options, proto, config.name[1], cleanConfig)
            IN  /\ options' = r[1]
                /\ proto' = r[2]
                /\ result' = Call("add", config, Some(cleanConfig),
                                  Entry(options, config.name[1]), Void)
    /\ UNCHANGED gen

\* remove that refuses a name with no entry
removeStrict(config) ==
    /\ gen = Undefined
    /\ IF NoName(config)
       THEN /\ result' = Call("remove", config, Undefined, Undefined,
                              Thrown("MissingName", ""))
            /\ UNCHANGED <<options, proto>>
       ELSE IF config.name[1] \notin DOMAIN options
       THEN /\ result' = Call("remove", config, Undefined, Undefined,
                              Thrown("ConfigurationNotFound", config.name[1]))
            /\ UNCHANGED <<options, proto>>
       ELSE LET r == Delete(options, proto, config.name[1])
            IN  /\ options' = r[1]
                /\ proto' = r[2]
                /\ result' = Call("remove", config, Undefined,
                                  Entry(options, config.name[1]), Void)
    /\ UNCHANGED gen

remove(config) ==
    /\ gen = Undefined
    /\ IF NoName(config)
       THEN /\ result' = Call("remove", config, Undefined, Undefined,
                              Thrown("MissingName", ""))
            /\ UNCHANGED <<options, proto>>
       ELSE LET r == Delete(options, proto, config.name[1])
            IN  /\ options' = r[1]
                /\ proto' = r[2]
                /\ result' = Call("remove", config, Undefined,
                                  Entry(options, config.name[1]), Void)
    /\ UNCHANGED gen

\* create storing the configuration it generated with under its name
createStoring(input, src) ==
    /\ gen = Undefined
    /\ LET config == generateConfig(input)
           out    == generateId(Destructure(ConfigValue(config)), src)
           r      == Set(options, proto, config.name, config)
       IN  /\ out # Running
           /\ result' = Call("create", input, Some(config), Undefined, out)
           /\ options' = r[1]
           /\ proto' = r[2]
    /\ UNCHANGED gen

\* create(length, style, onlyLowerCase, urlSafe) returning on the bytes of src;
\* input holds the four arguments, its name is undefined
create(input, src) ==
    /\ gen = Undefined
    /\ LET config == generateConfig(input)
           out    == generateId(Destructure(ConfigValue(config)), src)
       IN  /\ out # Running
           /\ result' = Call("create", input, Some(config), Undefined, out)
    /\ UNCHANGED <<options, proto, gen>>

\* custom(name) returning on the bytes of src
custom(name, src) ==
    /\ gen = Undefined
    /\ LET v     == Get(options, proto, name)
           input == [NoFields EXCEPT !.name = Some(name)]
       IN  IF Truthy(v)
           THEN LET out == generateId(Destructure(v), src)
                IN  /\ out # Running
                    /\ result' = Call("custom", input,
                                      IF v.type = "config" THEN Some(v.cfg)
                                      ELSE Undefined,
                                      Undefined, out)
           ELSE result' = Call("custom", input, Undefined, Undefined,
                               Thrown("ConfigurationNotFound", name))
    /\ UNCHANGED <<options, proto, gen>>

-----------------------------------------------------------------------------
(* The inputs the calls are drawn from *)

UnknownStyle == "does_not_exist"

\* the option fields of add and of the constructor's mapping, name aside
AddInputs ==
    { NoFields,
      Partial(Undefined, Some(0), Some(TRUE), Some("hex"), Undefined),
      Partial(Undefined, Some(-1), Undefined, Some(UnknownStyle), Undefined),
      Partial(Undefined, Some(MaxLen), Undefined, Some(UnknownStyle), Undefined) }

AddNames == {Undefined, Some(""), Some("a"), Some("toString"), Some("__proto__")}

CustomNames == {"", "a", "b", "toString", "constructor", "__proto__",
                "length", "onlyLowerCase"}

CreateInputs ==
    { NoFields,
      Partial(Undefined, Some(0), Undefined, Undefined, Undefined),
      Partial(Undefined, Some(-1), Undefined, Undefined, Undefined),
      Partial(Undefined, Some(-1), Undefined, Some(UnknownStyle), Undefined),
      Partial(Undefined, Some(MaxLen), Undefined, Some(UnknownStyle), Undefined),
      Partial(Undefined, Some(MaxLen), Some(TRUE), Some("alphanumeric"), Some(FALSE)) }

\* the mappings handed to the constructor, as Object.entries lists them
InitialMappings ==
    { << >> } \cup
    { <<[key |-> k,
         config |-> Partial(Some("a"), Some(MaxLen), Some(TRUE), Undefined, Undefined)]>> :
        k \in {"", "a", "__proto__"} }

Constructed == Call("constructor", NoFields, Undefined, Undefined, Void)

Init ==
    \E m \in InitialMappings :
        LET r == constructor(EmptyObject, Undefined, m)
        IN  /\ options = r[1]
            /\ proto = r[2]
            /\ result = Constructed
            /\ gen = Undefined

Next ==
    \/ \E n \in AddNames, c \in AddInputs : add([c EXCEPT !.name = n])
    \/ \E n \in AddNames : remove([NoFields EXCEPT !.name = n])
    \/ \E c \in CreateInputs, src \in Sources : create(c, src)
    \/ \E n \in CustomNames, src \in Sources : custom(n, src)

Spec == Init /\ [][Next]_vars

-----------------------------------------------------------------------------
(* Normalisation: create and add over every combination of supplied,      *)
(* falsy and omitted fields                                                *)

LengthArgs == {Undefined, Some(0), Some(-1), Some(MaxLen)}

StyleArgs == {Undefined, Some(""), Some("hex"), Some(UnknownStyle)}

FlagArgs == {Undefined, Some(FALSE), Some(TRUE)}

NormInputs ==
    { Partial(Undefined, l, lc, s, us) :
        l \in LengthArgs, lc \in FlagArgs, s \in StyleArgs, us \in FlagArgs }

NormAddInputs ==
    { Partial(Some("a"), l, Undefined, Undefined, us) :
        l \in LengthArgs, us \in {Undefined, Some(FALSE)} }

InitNorm ==
    LET r == constructor(EmptyObject, Undefined, << >>)
    IN  /\ options = r[1]
        /\ proto = r[2]
        /\ result = Constructed
        /\ gen = Undefined

NextNorm ==
    \/ \E c \in NormInputs, src \in Sources : create(c, src)
    \/ \E c \in NormAddInputs : add(c)
    \/ \E src \in Sources : custom("a", src)

SpecNorm == InitNorm /\ [][NextNorm]_vars

-----------------------------------------------------------------------------
(* generateId step by step: the while loop, the for loop, the return *)

\* the frame of a running generateId: the call it serves, its locals p and
\* the loop's position st
Frame(op, input, config, p) ==
    [op |-> op, input |-> input, config |-> config, p |-> p, st |-> LoopStart]

\* generateId(v) entered from the public call op: it throws, or reaches the loop
enterGenerateId(op, input, v) ==
    LET s == generateIdSetup(Destructure(v))
        config == IF v.type = "config" THEN Some(v.cfg) ELSE Undefined
    IN  IF s.kind = "throw"
        THEN /\ result' = Call(op, input, config, Undefined, s)
             /\ gen' = Undefined
        ELSE /\ gen' = Some(Frame(op, input, config, s.p))
             /\ result' = Call(op, input, config, Undefined, Running)

\* create(...) up to the loop of generateId
enterCreate(input) ==
    /\ gen = Undefined
    /\ enterGenerateId("create", input, ConfigValue(generateConfig(input)))
    /\ UNCHANGED <<options, proto>>

\* custom(name) up to the loop of generateId
enterCustom(name) ==
    /\ gen = Undefined
    /\ LET v     == Get(options, proto, name)
           input == [NoFields EXCEPT !.name = Some(name)]
       IN  IF Truthy(v)
           THEN enterGenerateId("custom", input, v)
           ELSE /\ result' = Call("custom", input, Undefined, Undefined,
                                  Thrown("ConfigurationNotFound", name))
                /\ UNCHANGED gen
    /\ UNCHANGED <<options, proto>>

\* the while test: a fresh batch is drawn, or the loop is left, or
\* getRandomValues throws and the error leaves generateId and the public call
loopWhile ==
    /\ gen # Undefined
    /\ gen[1].st.pc = "while"
    /\ LET st2 == whileTest(gen[1].p, gen[1].st)
       IN  IF st2.pc = "throw"
           THEN /\ result' = Call(gen[1].op, gen[1].input, gen[1].config,
                                  Undefined, Thrown("QuotaExceeded", ""))
                /\ gen' = Undefined
           ELSE /\ gen' = Some([gen[1] EXCEPT !.st = st2])
                /\ UNCHANGED result
    /\ UNCHANGED <<options, proto>>

\* the for body on bytes[i] = b, any byte the source may have delivered
loopFor(b) ==
    /\ gen # Undefined
    /\ gen[1].st.pc = "for"
    /\ gen[1].st.i < gen[1].p.step
    /\ gen' = Some([gen[1] EXCEPT !.st = forBody(gen[1].p, @, b)])
    /\ UNCHANGED <<options, proto, result>>

\* the for loop ends with the batch used up
loopForExit ==
    /\ gen # Undefined
    /\ gen[1].st.pc = "for"
    /\ ~(gen[1].st.i < gen[1].p.step)
    /\ gen' = Some([gen[1] EXCEPT !.st = forExit(gen[1].p, @)])
    /\ UNCHANGED <<options, proto, result>>

\* return id
loopReturn ==
    /\ gen # Undefined
    /\ gen[1].st.pc = "return"
    /\ result' = Call(gen[1].op, gen[1].input, gen[1].config, Undefined,
                      Returned(gen[1].st.id))
    /\ gen' = Undefined
    /\ UNCHANGED <<options, proto>>

\* the bytes the source is drawn from: for every alphabet some are accepted,
\* and for every alphabet but the 16-character one some are rejected
Bytes == {0, 15, 22, 65, 127, 200, 255}

GenInputs ==
    { Partial(Undefined, Some(l), Some(lc), Some(s), Some(us)) :
        l \in (1..MaxLen) \cup {-1}, lc \in BOOLEAN,
        s \in {"hex", "alphanumeric", "extended", UnknownStyle},
        us \in BOOLEAN }

InitGen ==
    \E m \in { << >>,
               <<[key |-> "a",
                  config |-> Partial(Some("a"), Some(MaxLen), Some(TRUE),
                                     Undefined, Undefined)]>> } :
        LET r == constructor(EmptyObject, Undefined, m)
        IN  /\ options = r[1]
            /\ proto = r[2]
            /\ result = Constructed
            /\ gen = Undefined

NextGen ==
    \/ \E c \in GenInputs : enterCreate(c)
    \/ \E n \in {"a", "b"} : enterCustom(n)
    \/ loopWhile
    \/ \E b \in Bytes : loopFor(b)
    \/ loopForExit
    \/ loopReturn

SpecGen == InitGen /\ [][NextGen]_vars

-----------------------------------------------------------------------------
(* What the claims are stated in: the styles and the alphabet table of the *)
(* specification, built from character ranges                              *)

KnownStyles == {"hex", "alphanumeric", "extended"}

UpperCase == <<"A", "B", "C", "D", "E", "F", "G", "H", "I", "J", "K", "L", "M",
               "N", "O", "P", "Q", "R", "S", "T", "U", "V", "W", "X", "Y", "Z">>

LowerCase == <<"a", "b", "c", "d", "e", "f", "g", "h", "i", "j", "k", "l", "m",
               "n", "o", "p", "q", "r", "s", "t", "u", "v", "w", "x", "y", "z">>

Digits == <<"0", "1", "2", "3", "4", "5", "6", "7", "8", "9">>

UrlSafeSymbols == <<"-", ".", "_", "~">>

UrlUnsafeSymbols == <<"!", "$", "(", ")", "*", "+", ",", ";", "=", ":">>

\* the table of alphabets: style and flags to character sequence
TableAlphabet(style, onlyLowerCase, urlSafe) ==
    CASE style = "hex" ->
            Digits \o (IF onlyLowerCase THEN << >> ELSE SubSeq(UpperCase, 1, 6))
                   \o SubSeq(LowerCase, 1, 6)
      [] style = "alphanumeric" ->
            (IF onlyLowerCase THEN << >> ELSE UpperCase) \o LowerCase \o Digits
      [] style = "extended" ->
            (IF onlyLowerCase THEN << >> ELSE UpperCase) \o LowerCase \o Digits
                \o UrlSafeSymbols \o (IF urlSafe THEN << >> ELSE UrlUnsafeSymbols)

\* the table's sizes
TableSize(style, onlyLowerCase, urlSafe) ==
    CASE style = "hex"          -> IF onlyLowerCase THEN 16 ELSE 22
      [] style = "alphanumeric" -> IF onlyLowerCase THEN 36 ELSE 62
      [] style = "extended" /\ urlSafe  -> IF onlyLowerCase THEN 40 ELSE 66
      [] style = "extended" /\ ~urlSafe -> IF onlyLowerCase THEN 50 ELSE 76

Chars(s) == { s[k] : k \in 1..Len(s) }

\* a configuration generation accepts
Valid(c) == c.length >= 1 /\ c.style \in KnownStyles

\* the alphabet a valid configuration resolves to
AlphabetOf(c) == Chars(TableAlphabet(c.style, c.onlyLowerCase, c.urlSafe))

Generating == result.op \in {"create", "custom"}

-----------------------------------------------------------------------------
(* C1 *)

-----------------------------------------------------------------------------
(* C2 *)

\* the name a call was made with
NameOf(call) == call.input.name[1]

\* C2 as stated: a zero or negative requested length fails with
\* InvalidLength and returns no ID, on create and, for a configuration added
\* with such a length, on custom.
C2_NonPositiveLengthFails ==
    /\ (result.op = "create" /\ result.input.length # Undefined
            /\ result.input.length[1] <= 0) =>
          result.out = Thrown("InvalidLength", "")
    /\ (result.op = "add" /\ result.out = Void
            /\ result.input.length # Undefined
            /\ result.input.length[1] <= 0) =>
          \A src \in Sources :
              generateId(Destructure(Get(options, proto, NameOf(result))), src)
                  = Thrown("InvalidLength", "")

\* C2, amended: a negative requested length fails with InvalidLength and
\* returns no ID, on create and on custom of a configuration that was added
\* with it (add stores the negative length as given); a zero length is
\* replaced by the default 16 before the test and does not fail with
\* InvalidLength.
C2_NegativeLengthFails ==
    /\ (result.op = "create" /\ result.input.length # Undefined) =>
          IF result.input.length[1] < 0
          THEN result.out = Thrown("InvalidLength", "")
          ELSE result.input.length[1] = 0 => result.out.error # "InvalidLength"
    /\ (result.op = "add" /\ result.out = Void
            /\ result.input.length # Undefined) =>
          LET stored == Get(options, proto, NameOf(result)).cfg.length
          IN  IF result.input.length[1] < 0
              THEN stored = result.input.length[1]
              ELSE result.input.length[1] = 0 => stored = 16
    /\ (result.op = "custom" /\ result.config # Undefined) =>
          IF result.config[1].length < 0
          THEN result.out = Thrown("InvalidLength", "")
          ELSE result.out.error # "InvalidLength"

\* custom has failed on a registered configuration of negative length
C2_Witness_CustomNegativeLength ==
    /\ result.op = "custom"
    /\ NameOf(result) \in DOMAIN options
    /\ options[NameOf(result)].length < 0
    /\ result.out = Thrown("InvalidLength", "")

-----------------------------------------------------------------------------
(* C3 *)

\* the configuration the claim says normalize returns for input o
Normalized(o) ==
    [name          |-> IF o.name # Undefined THEN o.name[1] ELSE "",
     length        |-> IF o.length # Undefined /\ o.length[1] # 0
                       THEN o.length[1] ELSE 16,
     onlyLowerCase |-> IF o.onlyLowerCase # Undefined
                       THEN o.onlyLowerCase[1] ELSE FALSE,
     style         |-> IF o.style # Undefined /\ o.style[1] # ""
                       THEN o.style[1] ELSE "extended",
     urlSafe       |-> IF o.urlSafe # Undefined THEN o.urlSafe[1] ELSE TRUE]

\* C3: the configuration create generates with, and the one add stores, is
\* the input with length 16 for an omitted or zero length, 'extended' for an
\* omitted style, false for an omitted onlyLowerCase, true for an omitted
\* urlSafe (explicit false values kept) and '' for an omitted name; create
\* with length 0, and custom of a configuration added with length 0, return
\* a 16-character ID where the style is known.
C3_NormalizeDefaults ==
    /\ (result.op = "create" \/ (result.op = "add" /\ result.out = Void)) =>
          result.config = Some(Normalized(result.input))
    /\ (result.op = "add" /\ result.out = Void) =>
          Get(options, proto, NameOf(result)) = ConfigValue(Normalized(result.input))
    /\ (result.op = "create" /\ result.input.length = Some(0)
            /\ Normalized(result.input).style \in KnownStyles) =>
          result.out.kind = "id" /\ Len(result.out.id) = 16
    /\ (result.op = "add" /\ result.out = Void /\ result.input.length = Some(0)
            /\ Normalized(result.input).style \in KnownStyles) =>
          \A src \in Sources :
              LET out == generateId(Destructure(Get(options, proto, NameOf(result))), src)
              IN  out.kind = "id" /\ Len(out.id) = 16
    /\ (result.op = "custom" /\ result.config # Undefined
            /\ result.config[1].length = 16
            /\ result.config[1].style \in KnownStyles) =>
          result.out.kind = "id" /\ Len(result.out.id) = 16

\* create(0) has returned a 16-character ID
C3_Witness_CreateZero ==
    /\ result.op = "create"
    /\ result.input.length = Some(0)
    /\ result.input.urlSafe = Some(FALSE)
    /\ result.config[1].urlSafe = FALSE
    /\ result.out.kind = "id"
    /\ Len(result.out.id) = 16

-----------------------------------------------------------------------------
(* C4 *)

\* C4 as stated: custom(name) fails with ConfigurationNotFound naming name
\* exactly when no entry is registered under name, and otherwise generates
\* with the stored configuration.
C4_NotFoundIffUnregistered ==
    result.op = "custom" =>
        IF NameOf(result) \in DOMAIN options
        THEN /\ result.out.error # "ConfigurationNotFound"
             /\ result.config = Some(options[NameOf(result)])
        ELSE result.out = Thrown("ConfigurationNotFound", NameOf(result))

-----------------------------------------------------------------------------
(* C5 *)

\* C5: after an add that overwrote an entry, the entry under the name is the
\* normalisation of that add's argument alone, each omitted field at its
\* default; and a custom call generates with the entry stored under its name.
C5_AddOverwrites ==
    /\ (result.op = "add" /\ result.prev # Undefined) =>
          /\ NameOf(result) \in DOMAIN options
          /\ options[NameOf(result)] = Normalized(result.input)
    /\ (result.op = "custom" /\ NameOf(result) \in DOMAIN options) =>
          LET c == options[NameOf(result)]
          IN  /\ result.config = Some(c)
              /\ Valid(c) => /\ result.out.kind = "id"
                             /\ Len(result.out.id) = c.length
                             /\ Chars(result.out.id) \subseteq AlphabetOf(c)
              /\ ~Valid(c) => result.out.kind = "throw"

\* an add has replaced an entry whose length and style were not the defaults
\* by one that omits both
C5_Witness_OverwrittenByDefaults ==
    /\ result.op = "add"
    /\ result.prev # Undefined
    /\ result.prev[1].length # 16
    /\ result.prev[1].style # "extended"
    /\ result.input.length = Undefined
    /\ result.input.style = Undefined
    /\ options[NameOf(result)].length = 16

-----------------------------------------------------------------------------
(* C6 *)

\* C6: a remove with a non-empty name returns without error, deletes the
\* entry under that name and no other, changes nothing when there is none,
\* and leaves a registry that a second remove of the name does not change.
C6_RemoveDeletesExactly ==
    [][(result'.op = "remove" /\ ~NoName(result'.input)) =>
          LET n == result'.input.name[1]
          IN  /\ result'.out = Void
              /\ DOMAIN options' = DOMAIN options \ {n}
              /\ \A k \in DOMAIN options' : options'[k] = options[k]
              /\ proto' = proto
              /\ n \notin DOMAIN options => options' = options
              /\ Delete(options', proto', n) = <<options', proto'>>]_vars

\* a remove has deleted an entry and left another one in place
C6_Witness_RemovedOneOfTwo ==
    /\ result.op = "remove"
    /\ result.out = Void
    /\ result.prev # Undefined
    /\ NameOf(result) \notin DOMAIN options
    /\ DOMAIN options # {}

-----------------------------------------------------------------------------
(* C7 *)

\* C7: an add or remove whose name is absent or empty fails with MissingName
\* and leaves the registry as it was.
C7_MissingNameLeavesRegistry ==
    [][(result'.op \in {"add", "remove"} /\ NoName(result'.input)) =>
          /\ result'.out = Thrown("MissingName", "")
          /\ options' = options
          /\ proto' = proto]_vars

\* an add without a name has failed on a registry that holds an entry
C7_Witness_AddWithoutName ==
    /\ result.op = "add"
    /\ result.input.name = Undefined
    /\ result.input.length # Undefined
    /\ result.out = Thrown("MissingName", "")
    /\ DOMAIN options # {}

-----------------------------------------------------------------------------
(* C8 *)

\* C8 as stated: a generation call whose style is none of hex, alphanumeric,
\* extended fails with InvalidStyle naming the style.
C8_UnknownStyleFails ==
    (Generating /\ result.config # Undefined
        /\ result.config[1].style \notin KnownStyles) =>
        result.out = Thrown("InvalidStyle", result.config[1].style)

\* C8, amended: a generation call whose configuration has a length > 0 and a
\* style that is none of hex, alphanumeric, extended fails with InvalidStyle
\* naming the style and returns no ID; with a negative length it fails with
\* InvalidLength, the length being tested first.
C8_UnknownStyleFailsAfterLengthTest ==
    (Generating /\ result.config # Undefined
        /\ result.config[1].style \notin KnownStyles) =>
        IF result.config[1].length > 0
        THEN result.out = Thrown("InvalidStyle", result.config[1].style)
        ELSE result.out = Thrown("InvalidLength", "")

\* custom has failed with InvalidStyle on a registered configuration
C8_Witness_CustomUnknownStyle ==
    /\ result.op = "custom"
    /\ NameOf(result) \in DOMAIN options
    /\ options[NameOf(result)].style = UnknownStyle
    /\ result.out = Thrown("InvalidStyle", UnknownStyle)

-----------------------------------------------------------------------------
(* C9 *)

Duplicates(s) == \E i, j \in 1..Len(s) : i # j /\ s[i] = s[j]

\* C9: for a known style the alphabet generateId samples from is the
\* character sequence of the table, of the table's size and free of
\* duplicates; for hex and alphanumeric it is the one of the opposite
\* urlSafe flag too; with onlyLowerCase it holds no upper-case letter, with
\* urlSafe none of !$()*+,;=: ; and the resolver never fails on a known style.
C9_AlphabetTable ==
    /\ gen # Undefined =>
          LET c  == gen[1].config[1]
              cs == gen[1].p.characters
          IN  /\ c.style \in KnownStyles
              /\ cs = TableAlphabet(c.style, c.onlyLowerCase, c.urlSafe)
              /\ Len(cs) = TableSize(c.style, c.onlyLowerCase, c.urlSafe)
              /\ ~Duplicates(cs)
              /\ c.style \in {"hex", "alphanumeric"} =>
                    cs = TableAlphabet(c.style, c.onlyLowerCase, ~c.urlSafe)
              /\ c.onlyLowerCase => Chars(cs) \cap Chars(UpperCase) = {}
              /\ c.urlSafe => Chars(cs) \cap Chars(UrlUnsafeSymbols) = {}
    /\ (Generating /\ result.config # Undefined
            /\ result.config[1].style \in KnownStyles) =>
          result.out.error # "InvalidStyle"

\* generateId is sampling from the 50-character alphabet
C9_Witness_ExtendedLowerUnsafe ==
    /\ gen # Undefined
    /\ gen[1].config[1].style = "extended"
    /\ gen[1].config[1].onlyLowerCase
    /\ ~gen[1].config[1].urlSafe
    /\ Len(gen[1].p.characters) = 50

-----------------------------------------------------------------------------
(* C10 *)

\* C10 as stated: every entry of the registry has length > 0 and a style
\* among hex, alphanumeric, extended.
C10_EntriesValid ==
    \A n \in DOMAIN options : Valid(options[n])

\* a stored configuration with every field populated
Populated(c) ==
    /\ DOMAIN c = ConfigFields
    /\ c.name \in STRING
    /\ c.length \in Int /\ c.length # 0
    /\ c.onlyLowerCase \in BOOLEAN
    /\ c.style \in STRING /\ c.style # ""
    /\ c.urlSafe \in BOOLEAN

\* C10, amended: every entry of the registry has all of name, length,
\* onlyLowerCase, style and urlSafe populated, with a length that is not 0
\* and a style that is not empty; a negative length and an unknown style are
\* stored as given and rejected only when an ID is generated.
C10_EntriesPopulated ==
    /\ \A n \in DOMAIN options : Populated(options[n])
    /\ proto # Undefined => Populated(proto[1])
    /\ (result.op = "add" /\ result.out = Void) =>
          LET c == Get(options, proto, NameOf(result)).cfg
          IN  /\ c.name = NameOf(result)
              /\ (result.input.length # Undefined /\ result.input.length[1] < 0)
                    => c.length = result.input.length[1]
              /\ result.input.style = Some(UnknownStyle) => c.style = UnknownStyle

\* the registry holds an entry whose length was added as 0, next to one of
\* negative length and unknown style
C10_Witness_ZeroLengthAdded ==
    /\ result.op = "add"
    /\ result.out = Void
    /\ result.input.length = Some(0)
    /\ NameOf(result) \in DOMAIN options
    /\ options[NameOf(result)].length = 16
    /\ \E n \in DOMAIN options :
          options[n].length < 0 /\ options[n].style \notin KnownStyles


-----------------------------------------------------------------------------
(* C11 *)

\* every value a byte of the Uint8Array can take
ByteValues == 0..255

\* for each alphabet, how many byte values select each index under its mask
Selecting ==
    [cs \in Alphabets |->
        [i \in 0..(Len(cs) - 1) |->
            Cardinality({ b \in ByteValues : BitAnd(b, Mask(Len(cs))) = i })]]

\* every index of the alphabet is selected by the same number of byte values
Uniform ==
    [cs \in Alphabets |->
        \A i \in 0..(Len(cs) - 1) :
            /\ Selecting[cs][i] = Selecting[cs][0]
            /\ Selecting[cs][i] > 0]

\* what the for body does to the ID on byte b: characters[b & mask] is
\* appended when (b & mask) < n, and nothing is appended otherwise
AcceptsOrDiscards(p, st, b) ==
    LET byte == BitAnd(b, p.mask)
        id2  == forBody(p, st, b).id
    IN  IF byte < Len(p.characters)
        THEN id2 = Append(st.id, p.characters[byte + 1])
        ELSE id2 = st.id

\* the for body at the start of a default-length ID, on every byte value
OnEveryByte ==
    [cs \in Alphabets |->
        \A b \in ByteValues :
            AcceptsOrDiscards(Locals(defaultLength, cs),
                              [LoopStart EXCEPT !.pc = "for"], b)]

\* C11: the rejection sampling is unbiased.  Whenever generateId is inside
\* its loop on an alphabet of n characters, mask is 2^k - 1 with
\* n - 1 <= mask <= 255; every index of [0, n) is selected by the same
\* number of the byte values 0..255; each byte value appends
\* characters[b & mask] when (b & mask) < n and appends nothing otherwise
\* (no modulo folds it back), which is checked for all 256 values at the
\* start of an ID and for the bytes of the source at every for-body position
\* the loop reaches.
C11_UnbiasedRejectionSampling ==
    gen # Undefined =>
        LET p  == gen[1].p
            st == gen[1].st
            n  == Len(p.characters)
        IN  /\ p.characters \in Alphabets
            /\ \E k \in 0..8 : p.mask = 2 ^ k - 1
            /\ n - 1 <= p.mask
            /\ p.mask <= 255
            /\ Uniform[p.characters]
            /\ OnEveryByte[p.characters]
            /\ (st.pc = "for" /\ st.i < p.step) =>
                   \A b \in Bytes : AcceptsOrDiscards(p, st, b)

\* a byte was discarded: on an alphabet smaller than mask + 1 the batch is
\* two bytes in, one of them rejected and the other accepted
C11_Witness_ByteDiscarded ==
    /\ gen # Undefined
    /\ Len(gen[1].p.characters) < gen[1].p.mask + 1
    /\ gen[1].st.pc = "for"
    /\ gen[1].st.i = 2
    /\ Len(gen[1].st.id) = 1

-----------------------------------------------------------------------------
(* C12 *)

\* a length whose batch exceeds the quota for every alphabet: step is at
\* least 1.6 * (n - 1) / n times the length, which is more than the length
LargeLength == QuotaBytes

\* the arguments of create in the runs that are followed to their end
LiveInputs ==
    GenInputs \cup
    { Partial(Undefined, Some(LargeLength), Some(lc), Some(s), Undefined) :
        lc \in BOOLEAN, s \in {"hex", "extended"} }

\* one step of a running generateId
loopStep ==
    \/ loopWhile
    \/ \E b \in Bytes : loopFor(b)
    \/ loopForExit
    \/ loopReturn

\* the for body on a byte whose masked value is an index of the alphabet
loopForAccepted ==
    \E b \in Bytes :
        /\ gen # Undefined
        /\ BitAnd(b, gen[1].p.mask) < Len(gen[1].p.characters)
        /\ loopFor(b)

NextLive ==
    \/ \E c \in LiveInputs : enterCreate(c)
    \/ \E n \in {"a", "b"} : enterCustom(n)
    \/ loopStep

\* generateId runs synchronously, so a call that can take a step takes it;
\* and the source keeps delivering bytes whose masked value is accepted
SpecLive ==
    /\ InitGen
    /\ [][NextLive]_vars
    /\ WF_vars(loopStep)
    /\ SF_vars(loopForAccepted)

\* C12: for every configuration with length >= 1 and a known style the
\* sampling loop never fails and eventually terminates: step is at least 1
\* and a batch holds step bytes, no generation call on such a configuration
\* ends in an error, each pass of the while body starts on a fresh batch, the
\* ID never gets shorter while the loop runs, and, the source delivering
\* accepted bytes again and again, a running loop leads to the return of an
\* ID of exactly length characters.
C12_NeverFailsAndTerminates ==
    /\ [](gen # Undefined =>
              /\ gen[1].p.step >= 1
              /\ gen[1].st.i <= gen[1].p.step)
    /\ []((Generating /\ result.config # Undefined
                      /\ Valid(result.config[1])) =>
              result.out.kind # "throw")
    /\ [][(gen # Undefined /\ gen' # Undefined) =>
              /\ Len(gen'[1].st.id) >= Len(gen[1].st.id)
              /\ (gen[1].st.pc = "while" /\ gen'[1].st.pc = "for") =>
                     gen'[1].st.i = 0]_vars
    /\ (gen # Undefined) ~>
           (/\ gen = Undefined
            /\ result.out.kind = "id"
            /\ Len(result.out.id) = result.config[1].length)

-----------------------------------------------------------------------------
(* C13 *)

\* C13: the registry is mutated only through add and remove.  Every step
\* that is a create or a custom call, whether it returns an ID or fails with
\* any error, leaves the registry as it was: the same names, the same stored
\* configurations, the same prototype.
C13_GenerationLeavesRegistry ==
    [][result'.op \in {"create", "custom"} =>
           /\ options' = options
           /\ proto' = proto]_vars

\* with an entry registered, a create has just returned an ID generated with
\* a configuration that is not the registered one
C13_Witness_CreateBesideEntry ==
    /\ result.op = "create"
    /\ result.out.kind = "id"
    /\ options # EmptyObject
    /\ \A n \in DOMAIN options : options[n] # result.config[1]
=============================================================================
